---- MODULE Spec2Model ----
(***************************************************************************)
(* MemoryRepository<S, V> (memory-repository/src/lib.rs): a Vec<S> behind  *)
(* an Arc<RwLock<..>> with a caller-supplied predicate cmp(&S, &V), used   *)
(* by several threads.  Every lock acquisition and every critical section  *)
(* is a step of its own, so that the interleavings of list / list_all /    *)
(* has / find / add are the ones the RwLock allows.                        *)
(***************************************************************************)
EXTENDS Integers, Sequences, FiniteSets, TLC

\* ------------------------------------------------------------------ bounds
NumThreads == 2
MaxCalls == 2
MaxSeqCalls == 3
MaxListCalls == 1
MaxLen == 3
MaxLimit == 2
MaxPage == 2
MaxLiveCalls == 2

Threads == 1..NumThreads

\* ------------------------------------------------------------ record values
\* S: a record with an identifying field and a payload (test::Dummy has the
\* identifying field only; the payload lets a filter return a modified copy).
Ids == {1, 2}
Vals == {0, 1}
RecordValues == [id : Ids, val : Vals]

\* The two predicates MemoryRepository::new documents.
Cmps == {"id_eq", "should_match"}

\* V: the lookup key type of the chosen predicate.
KeysOf(c) == IF c = "id_eq" THEN Ids ELSE BOOLEAN

\* (self.cmp)(current, cmp_value)
Cmp(c, rec, key) == IF c = "id_eq" THEN rec.id = key ELSE key

\* ------------------------------------------------- u64 / u32 / usize values
\* A u64 is kept at its full width as 8 little-endian base-256 digits.
Base == 256
Digits == 8

RECURSIVE ToU64From(_, _)
ToU64From(n, k) ==
  IF k = 0 THEN <<>> ELSE <<n % Base>> \o ToU64From(n \div Base, k - 1)

\* u64::from(small value)
ToU64(n) == ToU64From(n, Digits)

\* 2^63 + 1
HugePage == <<1, 0, 0, 0, 0, 0, 0, 128>>

\* page - 1 on u64: [v |-> digits of the wrapped result, ovf |-> borrow out]
RECURSIVE SubOneFrom(_, _)
SubOneFrom(a, i) ==
  IF i > Digits THEN [v |-> <<>>, ovf |-> TRUE]
  ELSE IF a[i] > 0
       THEN [v |-> <<a[i] - 1>> \o SubSeq(a, i + 1, Digits), ovf |-> FALSE]
       ELSE LET r == SubOneFrom(a, i + 1)
            IN  [v |-> <<Base - 1>> \o r.v, ovf |-> r.ovf]

SubOne(a) == SubOneFrom(a, 1)

\* a * m on u64 for a one-digit-chunked multiplier m < 2^23 (u64::from(limit)
\* of the limits used here): [v |-> wrapped digits, ovf |-> carry out]
RECURSIVE MulSmallFrom(_, _, _, _)
MulSmallFrom(a, m, i, carry) ==
  IF i > Digits THEN [v |-> <<>>, ovf |-> carry > 0]
  ELSE LET p == a[i] * m + carry
           r == MulSmallFrom(a, m, i + 1, p \div Base)
       IN  [v |-> <<p % Base>> \o r.v, ovf |-> r.ovf]

MulU64(a, m) == MulSmallFrom(a, m, 1, 0)

\* The digits above the low two are zero: the value is below 65536.
IsSmall(a) == \A i \in 3..Digits : a[i] = 0
SmallVal(a) == a[1] + Base * a[2]

\* ------------------------------------------------------ iterator adaptors
\* The transform-filters F: Fn(&S) -> Option<S> the callers pass; an Option is
\* a sequence of length 0 (None) or 1 (Some).
Filters == {"some", "drop_high", "modify"}

ApplyFilter(f, rec) ==
  CASE f = "some"      -> <<rec>>
    [] f = "drop_high" -> IF rec.id > 1 THEN <<>> ELSE <<rec>>
    [] f = "modify"    -> <<[rec EXCEPT !.val = 1 - rec.val]>>

\* reader.iter().filter_map(|record| filter(record))
RECURSIVE FilterMap(_, _)
FilterMap(f, s) ==
  IF s = <<>> THEN <<>> ELSE ApplyFilter(f, Head(s)) \o FilterMap(f, Tail(s))

\* .skip(skip_results), skip_results a usize of 64 bits
Skip(s, n) ==
  IF ~IsSmall(n) \/ SmallVal(n) >= Len(s) THEN <<>>
  ELSE SubSeq(s, SmallVal(n) + 1, Len(s))

\* .take(take)
Take(s, k) == IF k >= Len(s) THEN s ELSE SubSeq(s, 1, k)

\* The body of list: filter_map, then skip, then take, then collect.
ListResult(s, f, skipResults, take) == Take(Skip(FilterMap(f, s), skipResults), take)

\* The body of list_all.
ListAllResult(s, f) == FilterMap(f, s)

\* reader.iter().find(|current| (self.cmp)(current, cmp_value)): the Option<&S>
\* is the position of the record referred to, 0 for None.
RECURSIVE IterFindFrom(_, _, _, _)
IterFindFrom(c, s, key, i) ==
  IF i > Len(s) THEN 0
  ELSE IF Cmp(c, s[i], key) THEN i ELSE IterFindFrom(c, s, key, i + 1)

\* A search that keeps the last match.
IterFindLast(c, s, key) ==
  IF \E i \in DOMAIN s : Cmp(c, s[i], key)
  THEN CHOOSE i \in DOMAIN s :
         /\ Cmp(c, s[i], key)
         /\ \A j \in DOMAIN s : Cmp(c, s[j], key) => j <= i
  ELSE 0

IterFind(c, s, key) == IterFindFrom(c, s, key, 1)

\* An existence check that looks at the first record only.
HasFirstOnly(c, s, key) == s # <<>> /\ Cmp(c, s[1], key)

\* has: result.is_some()
HasResult(c, s, key) == IterFind(c, s, key) # 0

\* find: .map(Clone::clone)
FindResult(c, s, key) ==
  IF IterFind(c, s, key) = 0 THEN <<>> ELSE <<s[IterFind(c, s, key)]>>

\* A record handed out by reference: it shares the memory of the stored one.
SharesStored(pos) == pos

\* The position in the store whose memory a record handed out by find shares:
\* none (0), the record at position pos having been cloned.
CloneShares(pos) == 0

\* A push that overwrites the last element instead of growing the vector.
VecPushOverwrite(s, rec) ==
  IF s = <<>> THEN <<rec>> ELSE [s EXCEPT ![Len(s)] = rec]

\* A push at the front.
VecPushFront(s, rec) == <<rec>> \o s

\* writer.push(record)
VecPush(s, rec) == Append(s, rec)

\* From<PoisonError<RwLockReadGuard>> and From<PoisonError<RwLockWriteGuard>>
FromReadPoison == "Reading"
FromWritePoison == "Writing"

\* A read that recovers the guard of a poisoned lock.
ReadIgnoresPoison(p) == FALSE

\* self.records.read() / .write() return Err exactly on a poisoned lock.
ReadIsErr(p) == p
WriteIsErr(p) == p

\* RwLock: a read guard is granted while no write guard is out; a write guard
\* while no guard at all is out.
\* A write guard granted while read guards are out.
CanWriteWithReaders(rs, ws) == ws = {}

CanRead(rs, ws) == ws = {}
CanWrite(rs, ws) == rs = {} /\ ws = {}

\* ------------------------------------------------------------------- state
VARIABLES
  records,      \* the Vec<S> inside the RwLock
  cmp,          \* the predicate the repository was constructed with
  readers,      \* threads holding a read guard
  writers,      \* threads holding the write guard
  poisoned,     \* the RwLock's poison flag
  pc,           \* where each thread is inside its call
  call,         \* the call each thread is making, with its arguments
  skipResults,  \* list's local skip_results
  ret,          \* the value a finished call returns
  shares,       \* the store position a record returned by find shares memory with
  snap,         \* history: records when the thread last got a read guard
  pre,          \* history: records when the thread made its call
  initial,      \* history: initial_records given to new
  lockOrder,    \* history: the records of add, in write-guard order
  added,        \* history: the (key, record) pairs of the add calls that returned
  calls         \* number of calls made so far

vars == <<records, cmp, readers, writers, poisoned, pc, call, skipResults,
          ret, shares, snap, pre, initial, lockOrder, added, calls>>

NoCall == [op |-> "none"]
NoRet == [kind |-> "none"]
Ok(v) == [kind |-> "ok", val |-> v]
Err(e) == [kind |-> "err", err |-> e]

\* What the callers pass, and how many calls they make: every argument of
\* list, the overflowing ones included, when only list and list_all are
\* called (Wide); every key and record in a sequential run of all five
\* methods (Sequential); a part of them when the threads run concurrently
\* (Narrow).
Wide ==
  [seq |-> TRUE,
   max |-> MaxListCalls,
   limits |-> 1..MaxLimit,
   pages |-> {ToU64(p) : p \in 1..MaxPage} \cup {HugePage},
   filters |-> Filters,
   recs |-> RecordValues]

Sequential ==
  [seq |-> TRUE,
   max |-> MaxSeqCalls,
   limits |-> {1},
   pages |-> {ToU64(2)},
   filters |-> {"drop_high"},
   recs |-> RecordValues]

Narrow ==
  [seq |-> FALSE,
   max |-> MaxCalls,
   limits |-> {1},
   pages |-> {ToU64(1)},
   filters |-> {"modify"},
   recs |-> {r \in RecordValues : r.val = 0}]

\* MemoryRepository::new(initial_records, cmp)
New(slices, cmps) ==
  /\ records \in slices
  /\ cmp \in cmps
  /\ readers = {}
  /\ writers = {}
  /\ poisoned = FALSE
  /\ pc = [t \in Threads |-> "idle"]
  /\ call = [t \in Threads |-> NoCall]
  /\ skipResults = [t \in Threads |-> ToU64(0)]
  /\ ret = [t \in Threads |-> NoRet]
  /\ shares = [t \in Threads |-> 0]
  /\ snap = [t \in Threads |-> <<>>]
  /\ pre = [t \in Threads |-> <<>>]
  /\ initial = records
  /\ lockOrder = <<>>
  /\ added = {}
  /\ calls = 0

Init == New({<<>>, <<[id |-> 1, val |-> 0]>>}, Cmps)

\* Every slice of at most MaxLen records.
RECURSIVE SlicesOf(_)
SlicesOf(n) ==
  IF n = 0 THEN {<<>>}
  ELSE SlicesOf(n - 1)
       \cup {Append(s, r) : s \in {x \in SlicesOf(n - 1) : Len(x) = n - 1},
                            r \in RecordValues}

\* list and list_all never use the predicate.
InitList == New(SlicesOf(MaxLen), {"id_eq"})

\* A thread enters one of the five methods; in a sequential run only when no
\* thread is inside a call.
CanEnter(t, in) ==
  /\ pc[t] = "idle"
  /\ calls < in.max
  /\ in.seq => \A u \in Threads : pc[u] \in {"idle", "panicked"}

\* The places of a call: waiting for the read guard, under it, waiting for
\* the write guard, under it, returned, returned and its record changed by
\* the caller; a thread between calls is idle, one that unwound is panicked.
Places == {"idle", "rlock", "rbody", "wlock", "push", "done", "mutated", "panicked"}

Enter(t, c, next) ==
  /\ calls' = calls + 1
  /\ call' = [call EXCEPT ![t] = c]
  /\ pc' = [pc EXCEPT ![t] = next]
  /\ pre' = [pre EXCEPT ![t] = records]

\* list: let skip_results = ((page - 1) * u64::from(limit)) as usize
SkipOf(page, limit) ==
  LET d == SubOne(page)
      m == MulU64(d.v, limit)
  IN  [v |-> m.v, ovf |-> d.ovf \/ m.ovf]

\* list is entered and the arithmetic fits in u64.
CallList(t, in) ==
  /\ CanEnter(t, in)
  /\ \E l \in in.limits, p \in in.pages, f \in in.filters :
       /\ ~SkipOf(p, l).ovf
       /\ Enter(t, [op |-> "list", limit |-> l, page |-> p, filter |-> f], "rlock")
       /\ skipResults' = [skipResults EXCEPT ![t] = SkipOf(p, l).v]
       /\ UNCHANGED <<records, cmp, readers, writers, poisoned, ret, shares,
                      snap, initial, lockOrder, added>>

\* list is entered, the arithmetic overflows u64 and the build wraps (no
\* overflow checks).
CallListWrap(t, in) ==
  /\ CanEnter(t, in)
  /\ \E l \in in.limits, p \in in.pages, f \in in.filters :
       /\ SkipOf(p, l).ovf
       /\ Enter(t, [op |-> "list", limit |-> l, page |-> p, filter |-> f], "rlock")
       /\ skipResults' = [skipResults EXCEPT ![t] = SkipOf(p, l).v]
       /\ UNCHANGED <<records, cmp, readers, writers, poisoned, ret, shares,
                      snap, initial, lockOrder, added>>

\* list is entered, the arithmetic overflows u64 and the build panics
\* (overflow checks): the thread unwinds before it asks for the lock.
CallListPanic(t, in) ==
  /\ CanEnter(t, in)
  /\ \E l \in in.limits, p \in in.pages, f \in in.filters :
       /\ SkipOf(p, l).ovf
       /\ Enter(t, [op |-> "list", limit |-> l, page |-> p, filter |-> f], "panicked")
       /\ UNCHANGED <<records, cmp, readers, writers, poisoned, skipResults, ret,
                      shares, snap, initial, lockOrder, added>>

CallListAll(t, in) ==
  /\ CanEnter(t, in)
  /\ \E f \in in.filters :
       /\ Enter(t, [op |-> "list_all", filter |-> f], "rlock")
       /\ UNCHANGED <<records, cmp, readers, writers, poisoned, skipResults, ret,
                      shares, snap, initial, lockOrder, added>>

CallHas(t, in) ==
  /\ CanEnter(t, in)
  /\ \E k \in KeysOf(cmp) :
       /\ Enter(t, [op |-> "has", key |-> k], "rlock")
       /\ UNCHANGED <<records, cmp, readers, writers, poisoned, skipResults, ret,
                      shares, snap, initial, lockOrder, added>>

CallFind(t, in) ==
  /\ CanEnter(t, in)
  /\ \E k \in KeysOf(cmp) :
       /\ Enter(t, [op |-> "find", key |-> k], "rlock")
       /\ UNCHANGED <<records, cmp, readers, writers, poisoned, skipResults, ret,
                      shares, snap, initial, lockOrder, added>>

CallAdd(t, in) ==
  /\ CanEnter(t, in)
  /\ \E k \in KeysOf(cmp), r \in in.recs :
       /\ Enter(t, [op |-> "add", key |-> k, rec |-> r], "rlock")
       /\ UNCHANGED <<records, cmp, readers, writers, poisoned, skipResults, ret,
                      shares, snap, initial, lockOrder, added>>

\* self.records.read() returns Ok(reader)
ReadLock(t) ==
  /\ pc[t] = "rlock"
  /\ CanRead(readers, writers)
  /\ ~ReadIsErr(poisoned)
  /\ readers' = readers \cup {t}
  /\ snap' = [snap EXCEPT ![t] = records]
  /\ pc' = [pc EXCEPT ![t] = "rbody"]
  /\ UNCHANGED <<records, cmp, writers, poisoned, call, skipResults, ret,
                 shares, pre, initial, lockOrder, added, calls>>

\* The closure under the read guard ends, the guard is dropped and the call
\* returns v.
ReadBody(t, op, v) ==
  /\ pc[t] = "rbody"
  /\ call[t].op = op
  /\ readers' = readers \ {t}
  /\ ret' = [ret EXCEPT ![t] = Ok(v)]
  /\ pc' = [pc EXCEPT ![t] = "done"]
  /\ UNCHANGED <<records, cmp, writers, poisoned, call, skipResults, snap,
                 pre, initial, lockOrder, added, calls>>

ListBody(t) ==
  /\ ReadBody(t, "list",
              ListResult(records, call[t].filter, skipResults[t], call[t].limit))
  /\ UNCHANGED shares

ListAllBody(t) ==
  /\ ReadBody(t, "list_all", ListAllResult(records, call[t].filter))
  /\ UNCHANGED shares

HasBody(t) ==
  /\ ReadBody(t, "has", HasResult(cmp, records, call[t].key))
  /\ UNCHANGED shares

FindBody(t) ==
  /\ ReadBody(t, "find", FindResult(cmp, records, call[t].key))
  /\ shares' = [shares EXCEPT ![t] = CloneShares(IterFind(cmp, records, call[t].key))]

\* The caller changes the record find gave it.
MutateReturned(t) ==
  /\ pc[t] = "done"
  /\ call[t].op = "find"
  /\ ret[t].kind = "ok"
  /\ ret[t].val # <<>>
  /\ LET r == ret[t].val[1]
         w == [r EXCEPT !.val = 1 - r.val]
     IN  /\ ret' = [ret EXCEPT ![t] = Ok(<<w>>)]
         /\ records' = IF shares[t] = 0 THEN records
                       ELSE [records EXCEPT ![shares[t]] = w]
  /\ pc' = [pc EXCEPT ![t] = "mutated"]
  /\ UNCHANGED <<cmp, readers, writers, poisoned, call, skipResults,
                 shares, snap, pre, initial, lockOrder, added, calls>>

\* A has that leaves its read guard out when it returns.
HasGuardKept(rs, t) == rs

\* has: the read guard is a local of has and is dropped when has returns.
HasGuardDropped(rs, t) == rs \ {t}

\* add: if self.has(cmp_value)? { Err(AlreadyExists) } else { ... }
AddHasBody(t) ==
  /\ pc[t] = "rbody"
  /\ call[t].op = "add"
  /\ readers' = HasGuardDropped(readers, t)
  /\ IF HasResult(cmp, records, call[t].key)
     THEN /\ ret' = [ret EXCEPT ![t] = Err("AlreadyExists")]
          /\ pc' = [pc EXCEPT ![t] = "done"]
          /\ added' = added \cup {<<call[t].key, call[t].rec>>}
     ELSE /\ ret' = ret
          /\ pc' = [pc EXCEPT ![t] = "wlock"]
          /\ added' = added
  /\ UNCHANGED <<records, cmp, writers, poisoned, call, skipResults, shares,
                 snap, pre, initial, lockOrder, calls>>

\* add: self.records.write() returns Ok(writer)
WriteLock(t) ==
  /\ pc[t] = "wlock"
  /\ CanWrite(readers, writers)
  /\ ~WriteIsErr(poisoned)
  /\ writers' = writers \cup {t}
  /\ lockOrder' = Append(lockOrder, call[t].rec)
  /\ pc' = [pc EXCEPT ![t] = "push"]
  /\ UNCHANGED <<records, cmp, readers, poisoned, call, skipResults, ret,
                 shares, snap, pre, initial, added, calls>>

\* add: writer.push(record); Ok(())
AddPush(t) ==
  /\ pc[t] = "push"
  /\ records' = VecPush(records, call[t].rec)
  /\ writers' = writers \ {t}
  /\ ret' = [ret EXCEPT ![t] = Ok("unit")]
  /\ pc' = [pc EXCEPT ![t] = "done"]
  /\ added' = added \cup {<<call[t].key, call[t].rec>>}
  /\ UNCHANGED <<cmp, readers, poisoned, call, skipResults, shares, snap,
                 pre, initial, lockOrder, calls>>

\* The caller takes the returned value; the thread is free for its next call.
Return(t) ==
  /\ pc[t] \in {"done", "mutated"}
  /\ pc' = [pc EXCEPT ![t] = "idle"]
  /\ call' = [call EXCEPT ![t] = NoCall]
  /\ ret' = [ret EXCEPT ![t] = NoRet]
  /\ shares' = [shares EXCEPT ![t] = 0]
  /\ snap' = [snap EXCEPT ![t] = <<>>]
  /\ pre' = [pre EXCEPT ![t] = <<>>]
  /\ skipResults' = [skipResults EXCEPT ![t] = ToU64(0)]
  /\ UNCHANGED <<records, cmp, readers, writers, poisoned, initial,
                 lockOrder, added, calls>>

\* add: writer.push(record) panics (capacity overflow) under the write guard:
\* the guard is dropped while unwinding and poisons the lock.
PushPanic(t) ==
  /\ pc[t] = "push"
  /\ poisoned' = TRUE
  /\ writers' = writers \ {t}
  /\ pc' = [pc EXCEPT ![t] = "panicked"]
  /\ UNCHANGED <<records, cmp, readers, call, skipResults, ret, shares, snap,
                 pre, initial, lockOrder, added, calls>>

\* self.records.read() returns Err(PoisonError): every method maps it to
\* MemoryRepositoryError::Reading, add through the ? on has.
ReadLockPoisoned(t) ==
  /\ pc[t] = "rlock"
  /\ CanRead(readers, writers)
  /\ ReadIsErr(poisoned)
  /\ ret' = [ret EXCEPT ![t] = Err(FromReadPoison)]
  /\ pc' = [pc EXCEPT ![t] = "done"]
  /\ UNCHANGED <<records, cmp, readers, writers, poisoned, call, skipResults,
                 shares, snap, pre, initial, lockOrder, added, calls>>

\* add: self.records.write() returns Err(PoisonError)
WriteLockPoisoned(t) ==
  /\ pc[t] = "wlock"
  /\ CanWrite(readers, writers)
  /\ WriteIsErr(poisoned)
  /\ ret' = [ret EXCEPT ![t] = Err(FromWritePoison)]
  /\ pc' = [pc EXCEPT ![t] = "done"]
  /\ UNCHANGED <<records, cmp, readers, writers, poisoned, call, skipResults,
                 shares, snap, pre, initial, lockOrder, added, calls>>

Step(t) ==
  \/ ReadLock(t)
  \/ ListBody(t)
  \/ ListAllBody(t)
  \/ HasBody(t)
  \/ FindBody(t)
  \/ MutateReturned(t)
  \/ AddHasBody(t)
  \/ WriteLock(t)
  \/ AddPush(t)
  \/ Return(t)

Call(t, in) ==
  \/ CallList(t, in)
  \/ CallListAll(t, in)
  \/ CallHas(t, in)
  \/ CallFind(t, in)
  \/ CallAdd(t, in)

\* Threads call concurrently.
Next == \E t \in Threads : Call(t, Narrow) \/ Step(t)

Spec == Init /\ [][Next]_vars

\* One call at a time.
NextSeq == \E t \in Threads : Call(t, Sequential) \/ Step(t)

SpecSeq == Init /\ [][NextSeq]_vars

\* list and list_all on a repository constructed from any slice, with every
\* argument.
ListStep(t) ==
  \/ ReadLock(t)
  \/ ListBody(t)
  \/ ListAllBody(t)
  \/ Return(t)

NextList ==
  \E t \in Threads :
    \/ CallList(t, Wide)
    \/ CallListWrap(t, Wide)
    \/ CallListPanic(t, Wide)
    \/ CallListAll(t, Wide)
    \/ ListStep(t)

SpecList == InitList /\ [][NextList]_vars

\* Threads call concurrently and a push may panic under the write guard.
Fault(t) ==
  \/ PushPanic(t)
  \/ ReadLockPoisoned(t)
  \/ WriteLockPoisoned(t)

NextFault == \E t \in Threads : Call(t, Narrow) \/ Step(t) \/ Fault(t)

SpecFault == Init /\ [][NextFault]_vars

\* The steps of thread t inside a call, under a guard or after it got one.
BodyStep(t) ==
  \/ ListBody(t)
  \/ ListAllBody(t)
  \/ HasBody(t)
  \/ FindBody(t)
  \/ AddHasBody(t)
  \/ AddPush(t)

\* A running thread is scheduled, and a thread asking for a guard that stays
\* free gets it.  The callers making a bounded number of calls, a guard asked
\* for is in the end free for good, so this weaker condition stands for a
\* fair RwLock (one that serves a guard that is free again and again).
Fairness ==
  \A t \in Threads :
    /\ WF_vars(BodyStep(t))
    /\ WF_vars(ReadLock(t))
    /\ WF_vars(WriteLock(t))

\* What the threads pass when every call has to return: all five methods,
\* one record value, on a repository constructed empty.
Live ==
  [seq |-> FALSE,
   max |-> MaxLiveCalls,
   limits |-> {1},
   pages |-> {ToU64(1)},
   filters |-> {"some"},
   recs |-> {[id |-> 1, val |-> 0]}]

InitLive == New({<<>>}, {"id_eq"})

NextLive == \E t \in Threads : Call(t, Live) \/ Step(t)

SpecLive == InitLive /\ [][NextLive]_vars /\ Fairness

\* ======================================================= domain values
\* domain/src/channel.rs and domain/src/big_num.rs: constructors and operators
\* without shared state.  A thread calls one with arguments from the sets
\* below; the call returns a value, or the thread unwinds.
MaxU32 == 2
MaxPrefixes == 2
MaxAmount == 4
MaxNumer == 3
MaxDenom == 3

\* The functions keep nothing between calls: a run makes one call.
DomainCalls == [seq |-> TRUE, max |-> 1]

\* A call that unwinds instead of returning.
Panic == [kind |-> "panic"]

\* Option<T>: a sequence of length 0 (None) or 1 (Some).
None == <<>>
Some(x) == <<x>>

\* ---------------------------------------------------- ChannelListParams
\* DateTime<Utc> values, u32 values, Option<String> validators.
DateTimes == {0, 1}
U32s == 0..MaxU32
Validators == {None, Some(""), Some("0xce07"), Some("0x")}

\* A normalisation that keeps the string it was given.
KeepValidator(v) == v

\* validator.and_then(|s| match s.is_empty() { true => None, false => Some(s) })
NormalizeValidator(v) ==
  IF v = None THEN None
  ELSE IF v[1] = "" THEN None ELSE Some(v[1])

\* ChannelListParams::new(valid_until_ge, limit, page, validator)
ChannelListParamsNew(valid_until_ge, limit, page, validator) ==
  IF page < 1 THEN Err("InvalidArgument")
  ELSE IF limit < 1 THEN Err("InvalidArgument")
  ELSE Ok([valid_until_ge |-> valid_until_ge,
           page |-> page,
           limit |-> limit,
           validator |-> NormalizeValidator(validator)])

\* A call of a function without shared state: it runs to its end in one step.
DomainCall(t, c, outcome) ==
  /\ Enter(t, c, IF outcome.kind = "panic" THEN "panicked" ELSE "done")
  /\ ret' = [ret EXCEPT ![t] = IF outcome.kind = "panic" THEN NoRet ELSE outcome]
  /\ UNCHANGED <<records, cmp, readers, writers, poisoned, skipResults,
                 shares, snap, initial, lockOrder, added>>

CallChannelListParamsNew(t) ==
  /\ CanEnter(t, DomainCalls)
  /\ \E v \in DateTimes, l \in U32s, p \in U32s, w \in Validators :
       DomainCall(t, [op |-> "ChannelListParams::new", valid_until_ge |-> v,
                      limit |-> l, page |-> p, validator |-> w],
                  ChannelListParamsNew(v, l, p, w))

\* ------------------------------------------------------------ ChannelId
\* A &str is the sequence of its characters.  pub id: [u8; 32]
IdBytes == 32

LowerHex == <<"0", "1", "2", "3", "4", "5", "6", "7", "8", "9",
              "a", "b", "c", "d", "e", "f">>
UpperHex == <<"A", "B", "C", "D", "E", "F">>

IndexOf(seq, c) ==
  IF \E i \in DOMAIN seq : seq[i] = c
  THEN CHOOSE i \in DOMAIN seq : seq[i] = c
  ELSE 0

\* hex: the value of one character, -1 for a character that is no hex digit.
HexVal(c) ==
  IF IndexOf(LowerHex, c) # 0 THEN IndexOf(LowerHex, c) - 1
  ELSE IF IndexOf(UpperHex, c) # 0 THEN 9 + IndexOf(UpperHex, c)
  ELSE -1

\* The bytes of an even-length string of hex digits.
RECURSIVE HexBytes(_)
HexBytes(s) ==
  IF s = <<>> THEN <<>>
  ELSE <<16 * HexVal(s[1]) + HexVal(s[2])>> \o HexBytes(SubSeq(s, 3, Len(s)))

\* Vec::from_hex(s)
FromHex(s) ==
  IF Len(s) % 2 # 0 THEN Err("OddLength")
  ELSE IF \E i \in DOMAIN s : HexVal(s[i]) = -1 THEN Err("InvalidHexCharacter")
  ELSE Ok(HexBytes(s))

StartsWith(s, pat) == Len(s) >= Len(pat) /\ SubSeq(s, 1, Len(pat)) = pat

\* A trim that removes the pattern once.
TrimOnce(s, pat) ==
  IF StartsWith(s, pat) THEN SubSeq(s, Len(pat) + 1, Len(s)) ELSE s

\* hex.trim_start_matches("0x"): the pattern is removed from the start for as
\* long as the rest starts with it.
RECURSIVE TrimStartMatches(_, _)
TrimStartMatches(s, pat) ==
  IF StartsWith(s, pat)
  THEN TrimStartMatches(SubSeq(s, Len(pat) + 1, Len(s)), pat)
  ELSE s

\* ChannelId::try_from_hex(hex)
TryFromHex(hex) ==
  LET s == TrimStartMatches(hex, <<"0", "x">>)
      bytes == FromHex(s)
  IN  IF bytes.kind = "err" THEN Err("InvalidArgument")
      ELSE IF Len(bytes.val) # IdBytes THEN Err("InvalidArgument")
      ELSE Ok([id |-> bytes.val])

\* The strings passed: "0x" zero or more times, then characters of a length
\* around the 64 of a 32-byte id, one of them possibly no hex digit.
RECURSIVE Prefixes(_)
Prefixes(k) == IF k = 0 THEN <<>> ELSE <<"0", "x">> \o Prefixes(k - 1)

HexLengths == {0, 1} \cup ((2 * IdBytes - 2)..(2 * IdBytes + 2))
FillChars == {"0", "a", "F"}
OtherChars == {"g", "x"}

HexBody(n, c1, c2) == [i \in 1..n |-> IF i % 2 = 1 THEN c1 ELSE c2]

HexInputs ==
  LET bodies == {HexBody(n, c1, c2) : n \in HexLengths, c1 \in FillChars, c2 \in FillChars}
      spoilt == UNION {{[b EXCEPT ![i] = c] :
                          i \in {1, 2, Len(b)} \cap DOMAIN b, c \in OtherChars} :
                       b \in bodies}
  IN  {Prefixes(k) \o b : k \in 0..MaxPrefixes, b \in bodies \cup spoilt}

CallTryFromHex(t) ==
  /\ CanEnter(t, DomainCalls)
  /\ \E h \in HexInputs :
       DomainCall(t, [op |-> "try_from_hex", hex |-> h], TryFromHex(h))

\* --------------------------------------------------------------- BigNum
\* A BigNum is the natural number its BigUint holds.  An operator returns a
\* BigNum, no Result.
Returns(v) == [kind |-> "value", val |-> v]

\* test::bignum_mul_by_ratio: 50 * 23/100
TestAmount == 50
TestNumer == 23
TestDenom == 100

Amounts == 0..MaxAmount \cup {TestAmount}
Numers == 0..MaxNumer \cup {TestNumer}
Denoms == 0..MaxDenom \cup {TestDenom}

\* BigUint: &a / &b, a.div_floor(&b), a.mod_floor(&b) panic on a zero b.
BigUintDiv(a, b) == IF b = 0 THEN Panic ELSE Returns(a \div b)
BigUintDivFloor(a, b) == IF b = 0 THEN Panic ELSE Returns(a \div b)
BigUintModFloor(a, b) == IF b = 0 THEN Panic ELSE Returns(a % b)

\* BigNum::div_floor and Integer::div_floor, Integer::mod_floor
DivFloor(a, b) == BigUintDivFloor(a, b)
ModFloor(a, b) == BigUintModFloor(a, b)

\* Div<&BigNum> for &BigNum, Div<&BigNum> for BigNum
DivRef(a, b) == BigUintDiv(a, b)
DivVal(a, b) == BigUintDiv(a, b)

\* Mul<&BigNum> for &BigNum, Mul<&BigNum> for BigNum
MulRef(a, b) == a * b
MulVal(a, b) == a * b

\* A ratio applied with the division first.
DivThenMul(a, numer, denom) ==
  IF denom = 0 THEN Panic ELSE Returns(MulRef(a \div denom, numer))

\* Mul<&Ratio<BigNum>> for &BigNum: (self * rhs.numer()) / rhs.denom()
MulRatioRef(a, numer, denom) == DivVal(MulRef(a, numer), denom)

\* Mul<&Ratio<BigNum>> for BigNum
MulRatioVal(a, numer, denom) == DivVal(MulVal(a, numer), denom)

CallDivRef(t) ==
  /\ CanEnter(t, DomainCalls)
  /\ \E a \in Amounts, b \in Denoms :
       DomainCall(t, [op |-> "div_ref", a |-> a, b |-> b], DivRef(a, b))

CallDivVal(t) ==
  /\ CanEnter(t, DomainCalls)
  /\ \E a \in Amounts, b \in Denoms :
       DomainCall(t, [op |-> "div_val", a |-> a, b |-> b], DivVal(a, b))

CallDivFloor(t) ==
  /\ CanEnter(t, DomainCalls)
  /\ \E a \in Amounts, b \in Denoms :
       DomainCall(t, [op |-> "div_floor", a |-> a, b |-> b], DivFloor(a, b))

CallModFloor(t) ==
  /\ CanEnter(t, DomainCalls)
  /\ \E a \in Amounts, b \in Denoms :
       DomainCall(t, [op |-> "mod_floor", a |-> a, b |-> b], ModFloor(a, b))

CallMulRatioRef(t) ==
  /\ CanEnter(t, DomainCalls)
  /\ \E a \in Amounts, n \in Numers, d \in Denoms :
       DomainCall(t, [op |-> "mul_ratio_ref", a |-> a, numer |-> n, denom |-> d],
                  MulRatioRef(a, n, d))

CallMulRatioVal(t) ==
  /\ CanEnter(t, DomainCalls)
  /\ \E a \in Amounts, n \in Numers, d \in Denoms :
       DomainCall(t, [op |-> "mul_ratio_val", a |-> a, numer |-> n, denom |-> d],
                  MulRatioVal(a, n, d))

\* ------------------------------------------------- domain specification
InitDomain == New({<<>>}, {"id_eq"})

NextDomain ==
  \E t \in Threads :
    \/ CallChannelListParamsNew(t)
    \/ CallTryFromHex(t)
    \/ CallDivRef(t)
    \/ CallDivVal(t)
    \/ CallDivFloor(t)
    \/ CallModFloor(t)
    \/ CallMulRatioRef(t)
    \/ CallMulRatioVal(t)
    \/ Return(t)

SpecDomain == InitDomain /\ [][NextDomain]_vars

\* ================================================================ claims
Returned(t, op) == pc[t] = "done" /\ call[t].op = op
IsOk(t) == ret[t].kind = "ok"
IsErr(t, e) == ret[t].kind = "err" /\ ret[t].err = e

\* Some record of s satisfies equals(record, key).
Matches(s, key) == \E i \in DOMAIN s : Cmp(cmp, s[i], key)

\* The add of thread t is called with its record's own key.
OwnKey(t) == Cmp(cmp, call[t].rec, call[t].key)

\* C1: with the predicate "the record's id equals the key" and every add
\* called with its record's own key, two adds for the same key never both
\* return success.
C1_OneSuccessPerKey ==
  cmp = "id_eq" =>
    \A t, u \in Threads :
      ( /\ t # u
        /\ Returned(t, "add") /\ Returned(u, "add")
        /\ OwnKey(t) /\ OwnKey(u)
        /\ call[t].key = call[u].key )
      => ~(IsOk(t) /\ IsOk(u))

\* The threads whose call has returned, when these are the only calls made
\* and each such thread made one.
Finished == {t \in Threads : pc[t] = "done"}
OnlyAdds ==
  /\ Finished # {}
  /\ calls = Cardinality(Finished)
  /\ \A t \in Finished : call[t].op = "add"
  /\ \A t, u \in Finished : t # u => call[t].key # call[u].key
  /\ \A t \in Finished : ~Matches(initial, call[t].key)

\* The records after the initial ones are those of the finished adds, each once.
AllAppended ==
  /\ \A t \in Finished : IsOk(t)
  /\ Len(records) = Len(initial) + Cardinality(Finished)
  /\ SubSeq(records, 1, Len(initial)) = initial
  /\ \E f \in [1..Cardinality(Finished) -> Finished] :
       /\ \A i, j \in DOMAIN f : i # j => f[i] # f[j]
       /\ \A i \in DOMAIN f : records[Len(initial) + i] = call[f[i]].rec

\* C2 as stated: N adds with pairwise-distinct keys, none matching a record
\* already stored, all succeed and the store grows by exactly their N records.
C2_DistinctKeysAllSucceed == OnlyAdds => AllAppended

\* C2 amended: the same, when moreover no record passed to one of the N calls
\* matches the key of another of them.
C2_DistinctKeysAllSucceedAmended ==
  ( /\ OnlyAdds
    /\ \A t, u \in Finished : t # u => ~Cmp(cmp, call[t].rec, call[u].key) )
  => AllAppended

C2_Witness ==
  /\ OnlyAdds
  /\ Cardinality(Finished) = NumThreads
  /\ \A t, u \in Finished : t # u => ~Cmp(cmp, call[t].rec, call[u].key)

\* C3: in a sequential run, add returns AlreadyExists exactly when a stored
\* record matched the key when it was called, and then the store is as it
\* was; otherwise it returns success and the store is the old one with the
\* record appended last.
C3_AddSequential ==
  \A t \in Threads :
    Returned(t, "add") =>
      IF Matches(pre[t], call[t].key)
      THEN IsErr(t, "AlreadyExists") /\ records = pre[t]
      ELSE IsOk(t) /\ records = pre[t] \o <<call[t].rec>>

C3_Witness ==
  \E t \in Threads :
    /\ Returned(t, "add")
    /\ IsErr(t, "AlreadyExists")
    /\ Len(pre[t]) >= 2
    /\ ~Cmp(cmp, pre[t][1], call[t].key)

\* The add calls that have returned, and those among them whose record
\* matches the key it was added under.
AddedOwn == {p \in added : Cmp(cmp, p[2], p[1])}

\* Thread t is inside add past the existence check: its add does not return
\* AlreadyExists.
PastCheck(t) == call[t].op = "add" /\ pc[t] \in {"wlock", "push"}

\* C4 as stated: after add(k1, r1) and add(k2, r2) with k1 # k2 have
\* returned, has(k1) and has(k2) return true and a repeated add(k1, r1)
\* returns AlreadyExists, whether or not the records match their keys.
C4_AddThenHas ==
  \A t \in Threads :
    /\ ( /\ Returned(t, "has")
         /\ \E p, q \in added : p[1] = call[t].key /\ q[1] # p[1] )
       => IsOk(t) /\ ret[t].val
    /\ ( /\ PastCheck(t)
         /\ <<call[t].key, call[t].rec>> \in added )
       => ~(\E q \in added : q[1] # call[t].key)

\* C4 amended: the same for records that match the key they are added under.
C4_AddThenHasAmended ==
  \A t \in Threads :
    /\ ( /\ Returned(t, "has")
         /\ \E p, q \in AddedOwn : p[1] = call[t].key /\ q[1] # p[1] )
       => IsOk(t) /\ ret[t].val
    /\ ( /\ PastCheck(t)
         /\ <<call[t].key, call[t].rec>> \in AddedOwn )
       => ~(\E q \in AddedOwn : q[1] # call[t].key)

C4_Witness ==
  \E t \in Threads :
    /\ Returned(t, "has")
    /\ \E p, q \in AddedOwn : p[1] = call[t].key /\ q[1] # p[1]
    /\ Len(records) = Len(initial) + 2

\* The sequence obtained by applying f to every record of s in order and
\* keeping the returned values, by position.
KeptAt(f, s) == {i \in DOMAIN s : ApplyFilter(f, s[i]) # <<>>}
NthKept(f, s, j) ==
  CHOOSE i \in KeptAt(f, s) : Cardinality({k \in KeptAt(f, s) : k <= i}) = j
Filtered(f, s) ==
  [j \in 1..Cardinality(KeptAt(f, s)) |-> ApplyFilter(f, s[NthKept(f, s, j)])[1]]

\* The elements of F at the 0-based positions (page-1)*limit .. page*limit-1;
\* a page of 65536 or more lies past the end of every F here.
PageOf(F, page, limit) ==
  IF ~IsSmall(page) THEN <<>>
  ELSE LET first == (SmallVal(page) - 1) * limit
           rest == IF Len(F) > first THEN Len(F) - first ELSE 0
           n == IF rest < limit THEN rest ELSE limit
       IN  [i \in 1..n |-> F[first + i]]

\* C5: for every page >= 1 and limit >= 1, list returns without fault the
\* page of the filtered sequence (empty past the end), and list_all the whole
\* filtered sequence.
C5_ListPage ==
  \A t \in Threads :
    /\ call[t].op = "list" => pc[t] # "panicked"
    /\ Returned(t, "list") =>
         /\ IsOk(t)
         /\ ret[t].val = PageOf(Filtered(call[t].filter, snap[t]),
                                call[t].page, call[t].limit)
    /\ Returned(t, "list_all") =>
         IsOk(t) /\ ret[t].val = Filtered(call[t].filter, snap[t])

\* C5 where (page - 1) * limit fits in 64 bits: the part of C5 the code keeps.
C5_ListPageNoOverflow ==
  \A t \in Threads :
    /\ ( /\ Returned(t, "list")
         /\ ~SkipOf(call[t].page, call[t].limit).ovf )
       => /\ IsOk(t)
          /\ ret[t].val = PageOf(Filtered(call[t].filter, snap[t]),
                                 call[t].page, call[t].limit)
    /\ Returned(t, "list_all") =>
         IsOk(t) /\ ret[t].val = Filtered(call[t].filter, snap[t])

\* Thread t takes a step.
Acts(t) == pc'[t] # pc[t] \/ ret'[t] # ret[t]

ReadOps == {"list", "list_all", "has", "find"}

\* C6: once the lock is poisoned it stays poisoned, nothing is appended, no
\* thread panics, and every call that returns returns the typed fault:
\* Reading from list, list_all, has and find, Reading or Writing from add.
C6_PoisonedForGood ==
  [][ poisoned =>
        /\ poisoned'
        /\ records' = records
        /\ \A t \in Threads :
             /\ pc'[t] = "panicked" => pc[t] = "panicked"
             /\ (pc[t] # "done" /\ pc'[t] = "done") =>
                  /\ ret'[t].kind = "err"
                  /\ ret'[t].err \in (IF call[t].op = "add"
                                      THEN {"Reading", "Writing"}
                                      ELSE {"Reading"}) ]_vars

C6_Witness ==
  /\ poisoned
  /\ \E t, u \in Threads :
       /\ Returned(t, "add") /\ IsErr(t, "Writing")
       /\ pc[u] = "panicked"

\* C7: a thread appending inside add is the only thread inside a critical
\* section, and while a thread is inside a read critical section the store is
\* what it was when the thread got its read guard.
C7_WriterAlone ==
  \A t \in Threads :
    /\ pc[t] = "push" => \A u \in Threads \ {t} : pc[u] \notin {"rbody", "push"}
    /\ pc[t] = "rbody" => records = snap[t]

C7_Witness ==
  \E t, u \in Threads : pc[t] = "push" /\ pc[u] \in {"rlock", "wlock"}

\* Readers are inside their critical sections at the same time.
C7_ReadersOverlap ==
  \E t, u \in Threads : t # u /\ pc[t] = "rbody" /\ pc[u] = "rbody"

IsPrefix(s, r) == Len(s) <= Len(r) /\ SubSeq(r, 1, Len(s)) = s

\* C8: every step leaves the old store a prefix of the new one, and the
\* records after the initial ones are those of the adds in the order they
\* got the write guard (the last one missing while its add is still pushing).
C8_AppendOnly ==
  /\ [][IsPrefix(records, records')]_vars
  /\ [](/\ IsPrefix(initial, records)
        /\ IsPrefix(SubSeq(records, Len(initial) + 1, Len(records)), lockOrder)
        /\ Len(lockOrder) - (Len(records) - Len(initial))
             = Cardinality({t \in Threads : pc[t] = "push"}))

C8_Witness ==
  /\ Len(records) = Len(initial) + 2
  /\ records[Len(records)] # records[Len(records) - 1]

\* C9: no step of list, list_all, has or find, returning a value or the
\* fault, changes the store, and neither does the caller changing a record
\* it was given.
C9_ReadsLeaveStore ==
  [][\A t \in Threads :
       (call[t].op \in ReadOps /\ Acts(t)) => records' = records]_vars

C9_Witness ==
  \E t \in Threads :
    /\ pc[t] = "mutated"
    /\ call[t].op = "find"
    /\ Matches(records, call[t].key)
    /\ \A i \in DOMAIN records : records[i] # ret[t].val[1]

\* The positions of the stored records matching the key of t's call.
MatchAt(t) == {i \in DOMAIN pre[t] : Cmp(cmp, pre[t][i], call[t].key)}

\* C10: find returns the earliest-inserted record matching the key, none
\* when no record matches, and has returns true exactly in the first case.
C10_FindEarliest ==
  \A t \in Threads :
    /\ Returned(t, "find") =>
         /\ IsOk(t)
         /\ IF MatchAt(t) = {} THEN ret[t].val = <<>>
            ELSE \E i \in MatchAt(t) :
                   /\ \A j \in MatchAt(t) : i <= j
                   /\ ret[t].val = <<pre[t][i]>>
    /\ Returned(t, "has") => IsOk(t) /\ (ret[t].val <=> MatchAt(t) # {})

C10_Witness ==
  \E t \in Threads :
    /\ Returned(t, "find")
    /\ \E i, j \in MatchAt(t) : pre[t][i] # pre[t][j]

\* ------------------------------------------------------- domain claims
\* C11: ChannelListParams::new returns InvalidArgument, and no value, exactly
\* when page = 0 or limit = 0; otherwise it returns a value holding page,
\* limit and valid_until_ge as given, and as validator none when the given
\* validator is absent or the empty string, else the given string.
C11_ListParamsNew ==
  \A t \in Threads :
    /\ pc[t] = "panicked" => call[t].op # "ChannelListParams::new"
    /\ Returned(t, "ChannelListParams::new") =>
         LET c == call[t]
         IN  /\ IsErr(t, "InvalidArgument") <=> (c.page = 0 \/ c.limit = 0)
             /\ IsErr(t, "InvalidArgument") \/ IsOk(t)
             /\ ~IsOk(t) => DOMAIN ret[t] = {"kind", "err"}
             /\ IsOk(t) =>
                  /\ ret[t].val.page = c.page
                  /\ ret[t].val.limit = c.limit
                  /\ ret[t].val.valid_until_ge = c.valid_until_ge
                  /\ ret[t].val.validator =
                       IF c.validator \in {None, Some("")} THEN None
                       ELSE c.validator

C11_Witness ==
  \E t \in Threads :
    /\ Returned(t, "ChannelListParams::new")
    /\ call[t].validator = Some("")
    /\ IsOk(t)
    /\ ret[t].val.validator = None

\* The string is 64 hex digits.
IsHexId(s) == Len(s) = 2 * IdBytes /\ \A i \in DOMAIN s : HexVal(s[i]) # -1

\* C12: try_from_hex removes one leading "0x" when there is one, returns the
\* 32 bytes the rest decodes to when the rest is 64 hex digits, and
\* InvalidArgument for every other string, one with a repeated "0x" included.
C12_FromHexOnePrefix ==
  \A t \in Threads :
    Returned(t, "try_from_hex") =>
      LET rest == TrimOnce(call[t].hex, <<"0", "x">>)
      IN  IF IsHexId(rest)
          THEN IsOk(t) /\ ret[t].val = [id |-> HexBytes(rest)]
          ELSE IsErr(t, "InvalidArgument")

MulRatioOps == {"mul_ratio_ref", "mul_ratio_val"}

\* C13: an amount a multiplied by a ratio numer/denom with a non-zero denom,
\* by reference or by value, is floor((a * numer) / denom), and so differs
\* from (a / denom) * numer wherever the two differ.
C13_MulThenDiv ==
  \A t \in Threads :
    (pc[t] = "done" /\ call[t].op \in MulRatioOps) =>
      LET c == call[t]
      IN  /\ c.denom # 0
          /\ ret[t] = Returns((c.a * c.numer) \div c.denom)
          /\ (c.a \div c.denom) * c.numer # (c.a * c.numer) \div c.denom
               => ret[t].val # (c.a \div c.denom) * c.numer

C13_Witness ==
  \E t \in Threads :
    /\ Returned(t, "mul_ratio_ref")
    /\ call[t].a = TestAmount
    /\ call[t].numer = TestNumer
    /\ call[t].denom = TestDenom
    /\ ret[t].val = 11
    /\ (call[t].a \div call[t].denom) * call[t].numer = 0

DivOps == {"div_ref", "div_val", "div_floor", "mod_floor"}

\* The divisor of the call thread t made.
Divisor(t) == IF call[t].op \in MulRatioOps THEN call[t].denom ELSE call[t].b

\* C14: a division, a floor-division, a floor-modulo or a multiplication by
\* a ratio whose divisor is zero returns an arithmetic error to its caller.
C14_DivByZeroIsError ==
  \A t \in Threads :
    (call[t].op \in DivOps \cup MulRatioOps /\ Divisor(t) = 0) =>
      pc[t] = "done" /\ IsErr(t, "Arithmetic")

\* ----------------------------------------------------- termination claim
\* Thread t is inside a call that has not returned.
InCall(t) == pc[t] \in {"rlock", "rbody", "wlock", "push"}

\* C15: while some thread is inside a call, some thread inside a call can
\* take a step; a thread waiting for a guard holds none; and with fair
\* guards every call returns.
C15_EveryCallReturns ==
  /\ []((\E t \in Threads : InCall(t)) =>
          \E t \in Threads : ENABLED (ReadLock(t) \/ WriteLock(t) \/ BodyStep(t)))
  /\ [](\A t \in Threads :
          pc[t] \in {"rlock", "wlock"} => t \notin readers \cup writers)
  /\ \A t \in Threads : InCall(t) ~> pc[t] = "done"

C15_Witness ==
  \E t, u \in Threads :
    /\ pc[t] = "wlock"
    /\ u \in readers
    /\ ~CanWrite(readers, writers)

====
